---- MODULE Spec2Model ----
(***************************************************************************)
(* A model of wsl/parse.py: the one-slot lookahead buffer, header          *)
(* extraction, the atom / string / space lexers, value and row decoding,   *)
(* and parse_db.                                                           *)
(*                                                                         *)
(* Bytes are integers 0..255, a bytes object is a sequence of them.        *)
(* Offsets are the 0-based offsets of the Python code: At(line, i) is      *)
(* line[i].  Python's None is the empty sequence and a present value v is  *)
(* <<v>>, wherever a variable or field may hold None.                      *)
(***************************************************************************)
EXTENDS Integers, Sequences, FiniteSets, TLC

None == << >>
Some(v) == << v >>

At(line, i) == line[i + 1]

\* line[a:b] for 0 <= a <= b <= len(line)
Slice(line, a, b) == SubSeq(line, a + 1, b)

RECURSIVE Flatten(_)
Flatten(ss) == IF ss = << >> THEN << >> ELSE Head(ss) \o Flatten(Tail(ss))

SeqsUpTo(S, n) == UNION { [1..k -> S] : k \in 0..n }

(***************************************************************************)
(* Results of a call.  kind is "ok" (returned val and the new offset i),   *)
(* "none" (the call returned None) or "raise" (an exception of the given   *)
(* err; at is the byte offset the message reports, if it reports one, and  *)
(* text the byte strings the message renders).                             *)
(***************************************************************************)
Ok(v, j) == [kind |-> "ok", val |-> v, i |-> j, err |-> "", at |-> None, text |-> << >>]

ReturnNone == [kind |-> "none", val |-> << >>, i |-> 0, err |-> "", at |-> None, text |-> << >>]

Raise(e, off, txt) == [kind |-> "raise", val |-> << >>, i |-> 0, err |-> e, at |-> off, text |-> txt]

(***************************************************************************)
(* u(bin): bin.decode('utf-8'), strict.  On invalid UTF-8 it raises its    *)
(* own exception, whose message holds the backslash-escaped bytes and no   *)
(* offset.                                                                 *)
(***************************************************************************)
IsCont(b) == b >= 128 /\ b <= 191

RECURSIVE utf8_valid(_)
utf8_valid(b) ==
    IF b = << >> THEN TRUE
    ELSE LET c == b[1]
             n == Len(b)
         IN  IF c < 128 THEN utf8_valid(Tail(b))
             ELSE IF c >= 194 /\ c <= 223
                  THEN n >= 2 /\ IsCont(b[2]) /\ utf8_valid(SubSeq(b, 3, n))
             ELSE IF c >= 224 /\ c <= 239
                  THEN /\ n >= 3
                       /\ b[2] >= (IF c = 224 THEN 160 ELSE 128)
                       /\ b[2] <= (IF c = 237 THEN 159 ELSE 191)
                       /\ IsCont(b[3])
                       /\ utf8_valid(SubSeq(b, 4, n))
             ELSE IF c >= 240 /\ c <= 244
                  THEN /\ n >= 4
                       /\ b[2] >= (IF c = 240 THEN 144 ELSE 128)
                       /\ b[2] <= (IF c = 244 THEN 143 ELSE 191)
                       /\ IsCont(b[3])
                       /\ IsCont(b[4])
                       /\ utf8_valid(SubSeq(b, 5, n))
             ELSE FALSE

u(bin) == IF utf8_valid(bin) THEN Ok(bin, 0)
          ELSE Raise("NotValidUTF8", None, << bin >>)

\* raise Exception('<e> ... at byte %d in line %s' % (i, u(line))): the
\* message is formatted first, so a failing u(line) is what is raised.
OrElse(r, otherwise) == IF r.kind = "raise" THEN r ELSE otherwise

ParseError(e, i, line) == OrElse(u(line), Raise(e, Some(i), << line >>))

(***************************************************************************)
(* Python values of the two types the hex escape code mixes up: indexing   *)
(* a bytes object gives an int, 'x' is a str.  An int never equals a str,  *)
(* and ord() of an int is a TypeError.                                     *)
(***************************************************************************)
PyInt(n) == << "int", n >>
PyStr(n) == << "str", n >>
PyEq(a, b) == a = b

ord(c) == IF c[1] = "str" THEN Ok(c[2], 0) ELSE Raise("TypeError", None, << >>)

hexvalue(x) ==
    IF x.kind = "raise" THEN x
    ELSE IF 48 <= x.val /\ x.val < 58 THEN Ok(Some(x.val - 48), 0)
    ELSE IF 97 <= x.val /\ x.val < 103 THEN Ok(Some(10 + x.val - 97), 0)
    ELSE Ok(None, 0)

hexconvert(c) == hexvalue(ord(c))

(***************************************************************************)
(* bytes.strip(), bytes.lstrip(chars), bytes.startswith                    *)
(***************************************************************************)
Whitespace == {9, 10, 11, 12, 13, 32}

RECURSIVE lstrip(_, _)
lstrip(b, chars) ==
    IF b # << >> /\ Head(b) \in chars THEN lstrip(Tail(b), chars) ELSE b

RECURSIVE rstrip(_, _)
rstrip(b, chars) ==
    IF b # << >> /\ b[Len(b)] \in chars
    THEN rstrip(SubSeq(b, 1, Len(b) - 1), chars) ELSE b

\* a trim of spaces, tabs and newlines only
strip_blanks(b) == rstrip(lstrip(b, {9, 10, 32}), {9, 10, 32})

strip(b) == rstrip(lstrip(b, Whitespace), Whitespace)

startswith(b, p) == Len(b) >= Len(p) /\ SubSeq(b, 1, Len(p)) = p

(***************************************************************************)
(* parse_atom                                                              *)
(***************************************************************************)
RECURSIVE atom_end(_, _)
atom_end(line, i) ==
    IF i < Len(line) /\ At(line, i) > 32 /\ At(line, i) # 127
    THEN atom_end(line, i + 1) ELSE i

parse_atom(line, i) ==
    LET j == atom_end(line, i)
    IN  IF i = j THEN ParseError("ExpectedAtom", j, line)
        ELSE Ok(Slice(line, i, j), j)

(***************************************************************************)
(* parse_string                                                            *)
(***************************************************************************)
\* the table with \n and \r exchanged
EscapeMap_swapped == (34 :> 34) @@ (92 :> 92) @@ (110 :> 13) @@ (114 :> 10) @@ (116 :> 9)

\* m = { 0x22: 0x22, 0x5c: 0x5c, 0x6e: 0x0a, 0x72: 0x0d, 0x74: 0x09 }
EscapeMap == (34 :> 34) @@ (92 :> 92) @@ (110 :> 10) @@ (114 :> 13) @@ (116 :> 9)

\* the \x branch: line[i+2] and line[i+3] are indexed (IndexError past the
\* end), each handed to hexconvert as the int it is.
hex_lo(line, i, hi, lo) ==
    IF lo.kind = "raise" THEN lo
    ELSE IF hi.val = None \/ lo.val = None THEN ParseError("HexSequence", i, line)
    ELSE Ok(hi.val[1] * 16 + lo.val[1], i + 4)

hex_hi(line, i, hi) ==
    IF hi.kind = "raise" THEN hi
    ELSE IF i + 3 >= Len(line) THEN Raise("IndexError", None, << >>)
    ELSE hex_lo(line, i, hi, hexconvert(PyInt(At(line, i + 3))))

hex_escape(line, i) ==
    IF i + 2 >= Len(line) THEN Raise("IndexError", None, << >>)
    ELSE hex_hi(line, i, hexconvert(PyInt(At(line, i + 2))))

RECURSIVE string_loop(_, _, _)
after_hex(line, s, h) ==
    IF h.kind = "raise" THEN h ELSE string_loop(line, h.i, Append(s, h.val))

string_loop(line, i, s) ==
    IF ~(i < Len(line)) THEN ReturnNone
    ELSE IF At(line, i) = 34 THEN Ok(s, i + 1)
    ELSE IF At(line, i) = 92
         THEN IF \/ Len(line) - i < 2
                 \/ (PyEq(PyInt(At(line, i + 1)), PyStr(120)) /\ Len(line) - i < 4)
              THEN ParseError("EscapeSequenceParse", i, line)
              ELSE IF At(line, i + 1) \in DOMAIN EscapeMap
                   THEN string_loop(line, i + 2, Append(s, EscapeMap[At(line, i + 1)]))
              ELSE IF At(line, i + 1) = 120
                   THEN after_hex(line, s, hex_escape(line, i))
              ELSE ParseError("EscapeSequence", i, line)
    ELSE IF At(line, i) >= 32 /\ At(line, i) # 127
         THEN string_loop(line, i + 1, Append(s, At(line, i)))
    ELSE ParseError("StringLiteral", i, line)

parse_string(line, i) ==
    IF i = Len(line) \/ At(line, i) # 34
    THEN ParseError("ExpectedString", i, line)
    ELSE string_loop(line, i + 1, << >>)

(***************************************************************************)
(* parse_space                                                             *)
(***************************************************************************)
parse_space(line, i) ==
    IF i = Len(line) \/ At(line, i) # 32
    THEN ParseError("ExpectedSpace", i, line)
    ELSE Ok(<< >>, i + 1)

(***************************************************************************)
(* Column descriptors (wsl.datatype) and the schema (wsl.schema).  A       *)
(* datatype has a syntaxtype and a decode function.  The header text       *)
(* declares one relation per line, "rel name:type name:type ...", with     *)
(* the types atom, string and int.                                         *)
(***************************************************************************)
SYNTAX_ATOM == "SYNTAX_ATOM"
SYNTAX_STRING == "SYNTAX_STRING"

TypeAtom == << 97, 116, 111, 109 >>
TypeString == << 115, 116, 114, 105, 110, 103 >>
TypeInt == << 105, 110, 116 >>

Datatype(t) ==
    [name |-> t, syntaxtype |-> IF t = TypeString THEN SYNTAX_STRING ELSE SYNTAX_ATOM]

\* dt.decode(s): an int column accepts decimal digits only; atom and string
\* columns accept every token.  The value keeps the token's bytes.
decode(dt, s) ==
    IF dt.name = TypeInt /\ \E k \in 1..Len(s) : s[k] < 48 \/ s[k] > 57
    THEN Raise("DecodeError", None, << s >>)
    ELSE Ok(<< dt.name, s >>, 0)

RECURSIVE split(_, _)
split(b, sep) ==
    IF \A k \in 1..Len(b) : b[k] # sep THEN << b >>
    ELSE LET k == CHOOSE k \in 1..Len(b) :
                      b[k] = sep /\ \A j \in 1..(k - 1) : b[j] # sep
         IN  << SubSeq(b, 1, k - 1) >> \o split(SubSeq(b, k + 1, Len(b)), sep)

IsAtomBytes(b) == b # << >> /\ \A k \in 1..Len(b) : b[k] > 32 /\ b[k] # 127

\* the type named by one column declaration "name:type", or None
column_type(decl) ==
    LET parts == split(decl, 58)
    IN  IF Len(parts) = 2 /\ parts[1] # << >>
           /\ parts[2] \in {TypeAtom, TypeString, TypeInt}
        THEN Some(parts[2]) ELSE None

RECURSIVE schema_lines(_, _, _)
schema_lines(ls, relations, columns) ==
    IF ls = << >> THEN Ok([relations |-> relations, columns |-> columns], 0)
    ELSE IF Head(ls) = << >> THEN schema_lines(Tail(ls), relations, columns)
    ELSE LET f == split(Head(ls), 32)
             rel == f[1]
             decls == Tail(f)
         IN  IF \/ ~IsAtomBytes(rel)
                \/ rel \in DOMAIN columns
                \/ \E k \in 1..Len(decls) : column_type(decls[k]) = None
             THEN Raise("SchemaError", None, << Head(ls) >>)
             ELSE schema_lines(Tail(ls), Append(relations, rel),
                     columns @@ (rel :> [k \in 1..Len(decls) |->
                                          Datatype(column_type(decls[k])[1])]))

parse_schema(schemastring) == schema_lines(split(schemastring, 10), << >>, << >>)

make_datatypes_of_relation(schema) == schema.columns

(***************************************************************************)
(* parse_values, parse_row                                                 *)
(***************************************************************************)
lex_token(dt, line, i) ==
    IF dt.syntaxtype = SYNTAX_ATOM THEN parse_atom(line, i)
    ELSE IF dt.syntaxtype = SYNTAX_STRING THEN parse_string(line, i)
    ELSE Raise("AssertionError", None, << >>)

RECURSIVE values_loop(_, _, _, _)
column_value(line, i, datatypes, vs, val) ==
    IF val.kind = "raise" THEN val
    ELSE values_loop(line, i, Tail(datatypes), Append(vs, val.val))

\* s, i = parse_...(line, i): unpacking a returned None is a TypeError
column_token(line, datatypes, vs, tok) ==
    IF tok.kind = "raise" THEN tok
    ELSE IF tok.kind = "none" THEN Raise("TypeError", None, << >>)
    ELSE column_value(line, tok.i, datatypes, vs, decode(Head(datatypes), tok.val))

column_space(line, datatypes, vs, sp) ==
    IF sp.kind = "raise" THEN sp
    ELSE column_token(line, datatypes, vs, lex_token(Head(datatypes), line, sp.i))

\* a loop that returns after the last column without looking at the rest
\* of the line
values_loop_noeol(line, i, datatypes, vs) ==
    IF datatypes = << >> THEN Ok(vs, 0)
    ELSE column_space(line, datatypes, vs, parse_space(line, i))

values_loop(line, i, datatypes, vs) ==
    IF datatypes = << >>
    THEN IF i # Len(line) THEN ParseError("ExpectedEOL", i, line) ELSE Ok(vs, 0)
    ELSE column_space(line, datatypes, vs, parse_space(line, i))

parse_values(line, i, datatypes) == values_loop(line, i, datatypes, << >>)

row_values(relation, v) ==
    IF v.kind = "raise" THEN v ELSE Ok(<< relation, v.val >>, 0)

\* 'No such table: "%s" while parsing line: %s' % (u(relation), u(line))
row_relation(line, datatypes_of_relation, a) ==
    IF a.kind = "raise" THEN a
    ELSE IF a.val \notin DOMAIN datatypes_of_relation
         THEN OrElse(u(a.val), OrElse(u(line),
                     Raise("NoSuchTable", None, << a.val, line >>)))
    ELSE row_values(a.val, parse_values(line, a.i, datatypes_of_relation[a.val]))

parse_row(line, datatypes_of_relation) ==
    row_relation(line, datatypes_of_relation, parse_atom(line, 0))

(***************************************************************************)
(* State.  parse_db: the line source and the optional out-of-band header   *)
(* (inputs), the number of lines pulled from the underlying iterator, the  *)
(* Ahead slot, split_header's schlines, the header text, the schema, the   *)
(* row lists, the outcome of the call, and the lines handed to parse_row   *)
(* so far, the bytes of the file parse_db_file reads (None when parse_db  *)
(* is called with a line source), the calls made on an Ahead buffer by a   *)
(* direct caller, and the number of unget calls.                           *)
(* Lexer calls: the line, built as pre \o Flatten(toks) \o post,           *)
(* the offset the call starts at, the function called and its outcome.     *)
(***************************************************************************)
VARIABLES lines, given, it, x, pc, schlines, schemastring, schema,
          tuples_of_relation, ret, rowlog, file, calls, ungets,
          pre, toks, post, line, start, op, res

dbvars == << lines, given, it, x, pc, schlines, schemastring, schema,
             tuples_of_relation, ret, rowlog, file, calls, ungets >>
lexvars == << pre, toks, post, line, start, op, res >>
vars == << dbvars, lexvars >>

Running == [kind |-> "running", val |-> << >>, i |-> 0, err |-> "", at |-> None, text |-> << >>]

Range(f) == { f[k] : k \in DOMAIN f }

(***************************************************************************)
(* Ahead                                                                   *)
(***************************************************************************)
\* a pushback that forgets the line
unget_lost(slot, v) ==
    IF slot # None THEN Raise("AssertionError", None, << >>) ELSE Ok(None, 0)

\* a pushback without the assertion: the buffered line is overwritten
unget_overwrite(slot, v) == Ok(Some(v), 0)

\* Ahead.unget(x): the new slot, or the assertion failure
unget(slot, v) ==
    IF slot # None THEN Raise("AssertionError", None, << >>) ELSE Ok(Some(v), 0)

\* a slot tested for truth instead of for None: an empty pushed-back line
\* counts as no line
ahead_next_truthy(slot, n, src) ==
    IF slot # None /\ slot[1] # << >>
    THEN [stop |-> FALSE, out |-> slot[1], x |-> None, it |-> n]
    ELSE IF n < Len(src) THEN [stop |-> FALSE, out |-> src[n + 1], x |-> slot, it |-> n + 1]
    ELSE [stop |-> TRUE, out |-> << >>, x |-> slot, it |-> n]

\* Ahead.__next__: the item returned (stop at the end of the underlying
\* iterator), the slot and the iterator position afterwards.  The hasx
\* attribute it sets is read nowhere.
ahead_next(slot, n, src) ==
    IF slot # None THEN [stop |-> FALSE, out |-> slot[1], x |-> None, it |-> n]
    ELSE IF n < Len(src) THEN [stop |-> FALSE, out |-> src[n + 1], x |-> None, it |-> n + 1]
    ELSE [stop |-> TRUE, out |-> << >>, x |-> None, it |-> n]

(***************************************************************************)
(* split_header, one action per iteration of its loop                      *)
(***************************************************************************)
\* schlines.append(line.lstrip(b'% '))
header_entry(l) == lstrip(l, {37, 32})

\* b''.join(l+b'\n' for l in schlines)
join_header(ls) == Flatten([k \in 1..Len(ls) |-> Append(ls[k], 10)])

HeaderBlank ==
    /\ pc = "split_header"
    /\ LET nx == ahead_next(x, it, lines)
       IN  /\ ~nx.stop
           /\ strip(nx.out) = << >>
           /\ x' = nx.x
           /\ it' = nx.it
    /\ UNCHANGED << lines, given, pc, schlines, schemastring, schema,
                    tuples_of_relation, ret, rowlog, file, calls, ungets, lexvars >>

HeaderLine ==
    /\ pc = "split_header"
    /\ LET nx == ahead_next(x, it, lines)
           l == strip(nx.out)
       IN  /\ ~nx.stop
           /\ l # << >>
           /\ startswith(l, << 37 >>)
           /\ schlines' = Append(schlines, header_entry(l))
           /\ x' = nx.x
           /\ it' = nx.it
    /\ UNCHANGED << lines, given, pc, schemastring, schema,
                    tuples_of_relation, ret, rowlog, file, calls, ungets, lexvars >>

\* the first line of data: pushed back, and split_header returns
HeaderStop ==
    /\ pc = "split_header"
    /\ LET nx == ahead_next(x, it, lines)
           l == strip(nx.out)
           ug == unget(nx.x, l)
       IN  /\ ~nx.stop
           /\ l # << >>
           /\ ~startswith(l, << 37 >>)
           /\ it' = nx.it
           /\ ungets' = ungets + 1
           /\ IF ug.kind = "raise"
              THEN /\ x' = nx.x
                   /\ pc' = "raised"
                   /\ ret' = ug
                   /\ UNCHANGED schemastring
              ELSE /\ x' = ug.val
                   /\ pc' = "parse_schema"
                   /\ schemastring' = Some(join_header(schlines))
                   /\ UNCHANGED ret
    /\ UNCHANGED << lines, given, schlines, schema, tuples_of_relation,
                    rowlog, file, calls, lexvars >>

\* the source ends inside the header: split_header returns
HeaderEnd ==
    /\ pc = "split_header"
    /\ LET nx == ahead_next(x, it, lines)
       IN  /\ nx.stop
           /\ x' = nx.x
           /\ it' = nx.it
    /\ pc' = "parse_schema"
    /\ schemastring' = Some(join_header(schlines))
    /\ UNCHANGED << lines, given, schlines, schema, tuples_of_relation,
                    ret, rowlog, file, calls, ungets, lexvars >>

(***************************************************************************)
(* parse_db                                                                *)
(***************************************************************************)
\* a loop that misses the first declared relation
init_tuples_short(relations) ==
    [r \in Range(SubSeq(relations, 2, Len(relations))) |-> << >>]

\* tuples_of_relation = dict(); for relation in schema.relations: ... = []
init_tuples(relations) == [r \in Range(relations) |-> << >>]

\* a row put in front of the list
append_row_front(tuples, r, tup) == [tuples EXCEPT ![r] = << tup >> \o @]

\* tuples_of_relation[r].append(tup)
append_row(tuples, r, tup) == [tuples EXCEPT ![r] = Append(@, tup)]

SchemaParsed(sch) ==
    /\ sch.kind = "ok"
    /\ schema' = Some(sch.val)
    /\ tuples_of_relation' = init_tuples(sch.val.relations)

SchemaOk ==
    /\ pc = "parse_schema"
    /\ SchemaParsed(parse_schema(schemastring[1]))
    /\ pc' = "rows"
    /\ UNCHANGED << lines, given, it, x, schlines, schemastring, ret, rowlog,
                    file, calls, ungets, lexvars >>

SchemaRaised(sch) ==
    /\ sch.kind = "raise"
    /\ ret' = sch

SchemaFail ==
    /\ pc = "parse_schema"
    /\ SchemaRaised(parse_schema(schemastring[1]))
    /\ pc' = "raised"
    /\ UNCHANGED << lines, given, it, x, schlines, schemastring, schema,
                    tuples_of_relation, rowlog, file, calls, ungets, lexvars >>

RowBlank ==
    /\ pc = "rows"
    /\ LET nx == ahead_next(x, it, lines)
       IN  /\ ~nx.stop
           /\ strip(nx.out) = << >>
           /\ x' = nx.x
           /\ it' = nx.it
    /\ UNCHANGED << lines, given, pc, schlines, schemastring, schema,
                    tuples_of_relation, ret, rowlog, file, calls, ungets, lexvars >>

RowDecoded(row) ==
    /\ row.kind = "ok"
    /\ row.val[1] \in DOMAIN tuples_of_relation
    /\ tuples_of_relation' = append_row(tuples_of_relation, row.val[1], row.val[2])

RowOk ==
    /\ pc = "rows"
    /\ LET nx == ahead_next(x, it, lines)
           l == strip(nx.out)
       IN  /\ ~nx.stop
           /\ l # << >>
           /\ RowDecoded(parse_row(l, make_datatypes_of_relation(schema[1])))
           /\ rowlog' = Append(rowlog, l)
           /\ x' = nx.x
           /\ it' = nx.it
    /\ UNCHANGED << lines, given, pc, schlines, schemastring, schema, ret,
                    file, calls, ungets, lexvars >>

\* parse_row raises (or the relation is no key of the dict): parse_db raises
RowRaised(row) ==
    IF row.kind = "raise" THEN ret' = row
    ELSE /\ row.val[1] \notin DOMAIN tuples_of_relation
         /\ ret' = Raise("KeyError", None, << row.val[1] >>)

\* a decode failure that is swallowed: the line is skipped
RowFail_skip ==
    /\ pc = "rows"
    /\ LET nx == ahead_next(x, it, lines)
           l == strip(nx.out)
       IN  /\ ~nx.stop
           /\ l # << >>
           /\ parse_row(l, make_datatypes_of_relation(schema[1])).kind = "raise"
           /\ rowlog' = Append(rowlog, l)
           /\ x' = nx.x
           /\ it' = nx.it
    /\ UNCHANGED << lines, given, pc, schlines, schemastring, schema,
                    tuples_of_relation, ret, file, calls, ungets, lexvars >>

RowFail ==
    /\ pc = "rows"
    /\ LET nx == ahead_next(x, it, lines)
           l == strip(nx.out)
       IN  /\ ~nx.stop
           /\ l # << >>
           /\ RowRaised(parse_row(l, make_datatypes_of_relation(schema[1])))
           /\ rowlog' = Append(rowlog, l)
           /\ x' = nx.x
           /\ it' = nx.it
    /\ pc' = "raised"
    /\ UNCHANGED << lines, given, schlines, schemastring, schema,
                    tuples_of_relation, file, calls, ungets, lexvars >>

\* a row loop that also ends at the first blank line
Return_at_blank ==
    /\ pc = "rows"
    /\ LET nx == ahead_next(x, it, lines)
       IN  /\ nx.stop \/ strip(nx.out) = << >>
           /\ x' = nx.x
           /\ it' = nx.it
    /\ pc' = "returned"
    /\ ret' = Ok(<< schema[1], tuples_of_relation >>, 0)
    /\ UNCHANGED << lines, given, schlines, schemastring, schema,
                    tuples_of_relation, rowlog, file, calls, ungets, lexvars >>

\* the source is exhausted: return schema, tuples_of_relation
Return ==
    /\ pc = "rows"
    /\ LET nx == ahead_next(x, it, lines)
       IN  /\ nx.stop
           /\ x' = nx.x
           /\ it' = nx.it
    /\ pc' = "returned"
    /\ ret' = Ok(<< schema[1], tuples_of_relation >>, 0)
    /\ UNCHANGED << lines, given, schlines, schemastring, schema,
                    tuples_of_relation, rowlog, file, calls, ungets, lexvars >>

(***************************************************************************)
(* Inputs of parse_db                                                      *)
(***************************************************************************)
MaxLines == 3

\* "", " \t", "% r a:atom", "%% s a:string", " r x ", "r y", 's "a b"',
\* "r", "q x", "r y z"
LinePool ==
    { << >>,
      << 32, 9 >>,
      << 37, 32, 114, 32, 97, 58, 97, 116, 111, 109 >>,
      << 37, 37, 32, 115, 32, 97, 58, 115, 116, 114, 105, 110, 103 >>,
      << 32, 114, 32, 120, 32 >>,
      << 114, 32, 121 >>,
      << 115, 32, 34, 97, 32, 98, 34 >>,
      << 114 >>,
      << 113, 32, 120 >>,
      << 114, 32, 121, 32, 122 >> }

\* "r a:atom\ns a:string\n"
OutOfBandHeader ==
    << 114, 32, 97, 58, 97, 116, 111, 109, 10,
       115, 32, 97, 58, 115, 116, 114, 105, 110, 103, 10 >>

LexIdle ==
    /\ pre = << >>
    /\ toks = << >>
    /\ post = << >>
    /\ line = << >>
    /\ start = 0
    /\ op = ""
    /\ res = Running

\* lookahead = Ahead(lines); the header is split off only when no
\* schemastring is given
Init ==
    /\ lines \in SeqsUpTo(LinePool, MaxLines)
    /\ given \in {None, Some(OutOfBandHeader)}
    /\ it = 0
    /\ x = None
    /\ pc = IF given = None THEN "split_header" ELSE "parse_schema"
    /\ schlines = << >>
    /\ schemastring = given
    /\ schema = None
    /\ tuples_of_relation = << >>
    /\ ret = Running
    /\ rowlog = << >>
    /\ file = None
    /\ calls = << >>
    /\ ungets = 0
    /\ LexIdle

Next ==
    \/ HeaderBlank
    \/ HeaderLine
    \/ HeaderStop
    \/ HeaderEnd
    \/ SchemaOk
    \/ SchemaFail
    \/ RowBlank
    \/ RowOk
    \/ RowFail
    \/ Return

Spec == Init /\ [][Next]_vars

(***************************************************************************)
(* Calls of the lexers on their own.  The line is pre \o Flatten(toks) \o  *)
(* post and the call starts at offset start.                               *)
(***************************************************************************)
DbIdle ==
    /\ lines = << >>
    /\ given = None
    /\ it = 0
    /\ x = None
    /\ pc = "idle"
    /\ schlines = << >>
    /\ schemastring = None
    /\ schema = None
    /\ tuples_of_relation = << >>
    /\ ret = Running
    /\ rowlog = << >>
    /\ file = None
    /\ calls = << >>
    /\ ungets = 0

MaxBody == 2

\* a  SP  0xFF  TAB  DEL  "  \\  \"  \n  \r  \t  \y  \  \x41  \x42  \x6a
\* \x  \x4  \xA1
StrPieces ==
    { << 97 >>, << 32 >>, << 255 >>, << 9 >>, << 127 >>, << 34 >>,
      << 92, 92 >>, << 92, 34 >>, << 92, 110 >>, << 92, 114 >>, << 92, 116 >>,
      << 92, 121 >>, << 92 >>,
      << 92, 120, 52, 49 >>, << 92, 120, 52, 50 >>, << 92, 120, 54, 97 >>,
      << 92, 120 >>, << 92, 120, 52 >>, << 92, 120, 65, 49 >> }

\* nothing, an opening quote at offset 0, an opening quote at offset 2
StrPre == { << >>, << 34 >>, << 97, 32, 34 >> }

\* nothing, a closing quote, a closing quote and one more byte
StrPost == { << >>, << 34 >>, << 34, 32 >> }

InitString ==
    /\ DbIdle
    /\ pre \in StrPre
    /\ toks \in SeqsUpTo(StrPieces, MaxBody)
    /\ post \in StrPost
    /\ line = pre \o Flatten(toks) \o post
    /\ start = IF Len(pre) = 3 THEN 2 ELSE 0
    /\ op = ""
    /\ res = Running

DoParseString ==
    /\ pc = "idle"
    /\ op = ""
    /\ op' = "parse_string"
    /\ res' = parse_string(line, start)
    /\ UNCHANGED << dbvars, pre, toks, post, line, start >>

DoParseAtom ==
    /\ pc = "idle"
    /\ op = ""
    /\ op' = "parse_atom"
    /\ res' = parse_atom(line, start)
    /\ UNCHANGED << dbvars, pre, toks, post, line, start >>

DoParseSpace ==
    /\ pc = "idle"
    /\ op = ""
    /\ op' = "parse_space"
    /\ res' = parse_space(line, start)
    /\ UNCHANGED << dbvars, pre, toks, post, line, start >>

NextString == DoParseString \/ DoParseAtom \/ DoParseSpace

SpecString == InitString /\ [][NextString]_vars

(***************************************************************************)
(* Calls of parse_row and parse_values.  The line is a relation token      *)
(* (pre) followed by the pieces toks; the relations are those of           *)
(* RowHeader.                                                              *)
(***************************************************************************)
MaxFields == 5

\* "r a:atom\ns a:string b:atom\nt n:int\n"
RowHeader ==
    << 114, 32, 97, 58, 97, 116, 111, 109, 10,
       115, 32, 97, 58, 115, 116, 114, 105, 110, 103, 32, 98, 58, 97, 116, 111, 109, 10,
       116, 32, 110, 58, 105, 110, 116, 10 >>

RowSchema == make_datatypes_of_relation(parse_schema(RowHeader).val)

\* r, s, t, q (not declared), nothing
RowRelations == { << 114 >>, << 115 >>, << 116 >>, << 113 >>, << >> }

\* SP  ab  "x y"  "u  0xFF  7
RowPieces ==
    { << 32 >>, << 97, 98 >>, << 34, 120, 32, 121, 34 >>, << 34, 117 >>,
      << 255 >>, << 55 >> }

InitRow ==
    /\ DbIdle
    /\ pre \in RowRelations
    /\ toks \in SeqsUpTo(RowPieces, MaxFields)
    /\ post = << >>
    /\ line = pre \o Flatten(toks)
    /\ start = Len(pre)
    /\ op = ""
    /\ res = Running

DoParseRow ==
    /\ pc = "idle"
    /\ op = ""
    /\ op' = "parse_row"
    /\ res' = parse_row(line, RowSchema)
    /\ UNCHANGED << dbvars, pre, toks, post, line, start >>

\* parse_values as parse_row calls it: after the relation atom
DoParseValues ==
    /\ pc = "idle"
    /\ op = ""
    /\ pre \in DOMAIN RowSchema
    /\ op' = "parse_values"
    /\ res' = parse_values(line, start, RowSchema[pre])
    /\ UNCHANGED << dbvars, pre, toks, post, line, start >>

NextRow == DoParseRow \/ DoParseValues

SpecRow == InitRow /\ [][NextRow]_vars

(***************************************************************************)
(* parse_db_file: the file is opened in binary mode, its physical lines    *)
(* (each up to and including its '\n') lose their trailing '\n', and the   *)
(* lines go to parse_db.                                                   *)
(***************************************************************************)
\* for line in f
RECURSIVE physical_lines(_)
physical_lines(b) ==
    IF b = << >> THEN << >>
    ELSE IF \A k \in 1..Len(b) : b[k] # 10 THEN << b >>
    ELSE LET k == CHOOSE k \in 1..Len(b) :
                      b[k] = 10 /\ \A j \in 1..(k - 1) : b[j] # 10
         IN  << SubSeq(b, 1, k) >> \o physical_lines(SubSeq(b, k + 1, Len(b)))

\* lines = (line.rstrip(b'\n') for line in f)
file_lines(b) ==
    [k \in 1..Len(physical_lines(b)) |-> rstrip(physical_lines(b)[k], {10})]

\* "% r a:atom", "r x", "", "r y z", 's "a b"'
FileLinePool ==
    { << 37, 32, 114, 32, 97, 58, 97, 116, 111, 109 >>,
      << 114, 32, 120 >>,
      << >>,
      << 114, 32, 121, 32, 122 >>,
      << 115, 32, 34, 97, 32, 98, 34 >> }

\* LF, CR LF
LineEnds == { << 10 >>, << 13, 10 >> }

\* the files of up to MaxLines lines, each with either line end
FileContents ==
    { Flatten(ls) : ls \in SeqsUpTo({ l \o e : l \in FileLinePool, e \in LineEnds }, MaxLines) }

InitFile ==
    /\ file \in { Some(b) : b \in FileContents }
    /\ given \in {None, Some(OutOfBandHeader)}
    /\ lines = << >>
    /\ it = 0
    /\ x = None
    /\ pc = "open"
    /\ schlines = << >>
    /\ schemastring = given
    /\ schema = None
    /\ tuples_of_relation = << >>
    /\ ret = Running
    /\ rowlog = << >>
    /\ calls = << >>
    /\ ungets = 0
    /\ LexIdle

\* with open(filepath, "rb") as f: ... parse_db(lines, schemastring, ...)
OpenFile ==
    /\ pc = "open"
    /\ lines' = file_lines(file[1])
    /\ pc' = IF schemastring = None THEN "split_header" ELSE "parse_schema"
    /\ UNCHANGED << given, it, x, schlines, schemastring, schema,
                    tuples_of_relation, ret, rowlog, file, calls, ungets, lexvars >>

NextFile == OpenFile \/ Next

SpecFile == InitFile /\ [][NextFile]_vars

(***************************************************************************)
(* Calls of parse_row on the lines of the wire grammar: a relation atom    *)
(* and, for each column of the relation, one space and an atom or a        *)
(* quoted string whose body is plain bytes and escapes.  toks holds the    *)
(* spaces and the tokens.                                                  *)
(***************************************************************************)
\* ab  7
WireAtoms == { << 97, 98 >>, << 55 >> }

\* a  SP  0xFF  \\  \"  \n  \r  \t  \x41  \x0a  \x7f
WireBody ==
    { << 97 >>, << 32 >>, << 255 >>,
      << 92, 92 >>, << 92, 34 >>, << 92, 110 >>, << 92, 114 >>, << 92, 116 >>,
      << 92, 120, 52, 49 >>, << 92, 120, 48, 97 >>, << 92, 120, 55, 102 >> }

WireStrings == { << 34 >> \o Flatten(b) \o << 34 >> : b \in SeqsUpTo(WireBody, MaxBody) }

WireTokens(dt) == IF dt.syntaxtype = SYNTAX_STRING THEN WireStrings ELSE WireAtoms

RECURSIVE WireValues(_)
WireValues(datatypes) ==
    IF datatypes = << >> THEN { << >> }
    ELSE { << << 32 >>, t >> \o rest :
             t \in WireTokens(Head(datatypes)), rest \in WireValues(Tail(datatypes)) }

\* the relations r (one atom) and s (a string and an atom)
InitWire ==
    /\ DbIdle
    /\ pre \in { << 114 >>, << 115 >> }
    /\ toks \in WireValues(RowSchema[pre])
    /\ post = << >>
    /\ line = pre \o Flatten(toks)
    /\ start = 0
    /\ op = ""
    /\ res = Running

NextWire == DoParseRow

SpecWire == InitWire /\ [][NextWire]_vars

(***************************************************************************)
(* An Ahead buffer used by a caller directly: lookahead = Ahead(iter(lines)) *)
(* and then any calls of next(lookahead) and lookahead.unget(v), an unget  *)
(* onto an occupied slot included.  calls records each call: its argument, *)
(* whether it returned (ok) or raised (StopIteration, AssertionError), and *)
(* the item returned.                                                      *)
(***************************************************************************)
MaxCalls == 5

\* the lines of the underlying iterator: "", "a", "b"
AheadPool == { << >>, << 97 >>, << 98 >> }

\* the lines a caller pushes back: "", "a", "p"
PushPool == { << >>, << 97 >>, << 112 >> }

InitAhead ==
    /\ lines \in SeqsUpTo(AheadPool, MaxLines)
    /\ given = None
    /\ it = 0
    /\ x = None
    /\ pc = "ahead"
    /\ schlines = << >>
    /\ schemastring = None
    /\ schema = None
    /\ tuples_of_relation = << >>
    /\ ret = Running
    /\ rowlog = << >>
    /\ file = None
    /\ calls = << >>
    /\ ungets = 0
    /\ LexIdle

AheadNext ==
    /\ pc = "ahead"
    /\ Len(calls) < MaxCalls
    /\ LET nx == ahead_next(x, it, lines)
       IN  /\ x' = nx.x
           /\ it' = nx.it
           /\ calls' = Append(calls, [call |-> "next", arg |-> None, ok |-> ~nx.stop,
                                      out |-> IF nx.stop THEN None ELSE Some(nx.out)])
    /\ UNCHANGED << lines, given, pc, schlines, schemastring, schema,
                    tuples_of_relation, ret, rowlog, file, ungets, lexvars >>

AheadUnget ==
    /\ pc = "ahead"
    /\ Len(calls) < MaxCalls
    /\ \E v \in PushPool :
           LET ug == unget(x, v)
           IN  /\ x' = IF ug.kind = "raise" THEN x ELSE ug.val
               /\ calls' = Append(calls, [call |-> "unget", arg |-> Some(v),
                                          ok |-> ug.kind # "raise", out |-> None])
    /\ ungets' = ungets + 1
    /\ UNCHANGED << lines, given, it, pc, schlines, schemastring, schema,
                    tuples_of_relation, ret, rowlog, file, lexvars >>

NextAhead == AheadNext \/ AheadUnget

SpecAhead == InitAhead /\ [][NextAhead]_vars

(***************************************************************************)
(* The Ahead buffer in both of its uses: inside a call of parse_db, and by *)
(* a caller directly.                                                      *)
(***************************************************************************)
InitBuffer == Init \/ InitAhead

NextBuffer == Next \/ NextAhead

SpecBuffer == InitBuffer /\ [][NextBuffer]_vars

(***************************************************************************)
(* Calls from start to end: a call of parse_db with its loops, or a single *)
(* call of a lexer.                                                        *)
(***************************************************************************)
InitRuns == Init \/ InitString

NextRuns == Next \/ NextString

SpecRuns == InitRuns /\ [][NextRuns]_vars

(***************************************************************************)
(* What the properties of parse_db are stated in: the line source read as  *)
(* the wire grammar reads it, without the code's buffer and loops.         *)
(***************************************************************************)
IsBlankLine(l) == \A k \in 1..Len(l) : l[k] \in Whitespace

FirstByte(l) ==
    l[CHOOSE k \in 1..Len(l) :
          l[k] \notin Whitespace /\ \A j \in 1..(k - 1) : l[j] \in Whitespace]

IsHeaderLine(l) == ~IsBlankLine(l) /\ FirstByte(l) = 37

IsDataLine(l) == ~IsBlankLine(l) /\ FirstByte(l) # 37

\* the index of the first line that is data: with an inline header the
\* first non-blank line that does not start with '%', else the first line
FirstData ==
    IF given # None THEN 1
    ELSE IF \E k \in 1..Len(lines) : IsDataLine(lines[k])
         THEN CHOOSE k \in 1..Len(lines) :
                  IsDataLine(lines[k]) /\ \A j \in 1..(k - 1) : ~IsDataLine(lines[j])
         ELSE Len(lines) + 1

NonBlank(l) == ~IsBlankLine(l)

\* the non-blank lines from the first data line on, trimmed, in order
DataLines ==
    LET body == SelectSeq(SubSeq(lines, FirstData, Len(lines)), NonBlank)
    IN  [k \in 1..Len(body) |-> strip(body[k])]

\* the relation atom a data line starts with
RelationAtom(l) ==
    IF \E k \in 1..Len(l) : l[k] <= 32 \/ l[k] = 127
    THEN SubSeq(l, 1, (CHOOSE k \in 1..Len(l) :
                          /\ l[k] <= 32 \/ l[k] = 127
                          /\ \A j \in 1..(k - 1) : l[j] > 32 /\ l[j] # 127) - 1)
    ELSE l

IsPrefix(a, b) == Len(a) <= Len(b) /\ SubSeq(b, 1, Len(a)) = a

Declared == Range(schema[1].relations)

\* C1: once the schema is parsed, and in the returned mapping, the keys of
\* tuples_of_relation are exactly the relations the schema declares; a
\* relation no data line has named so far has the empty list.
C1_KeysAreDeclaredRelations ==
    schema # None =>
        /\ DOMAIN tuples_of_relation = Declared
        /\ \A r \in Declared :
               (\A k \in 1..Len(rowlog) : RelationAtom(rowlog[k]) # r)
                   => tuples_of_relation[r] = << >>
        /\ pc = "returned" =>
               /\ DOMAIN ret.val[2] = Range(ret.val[1].relations)
               /\ ret.val[1] = schema[1]

\* parse_db returned a mapping with an empty relation beside a filled one
C1_Witness ==
    /\ pc = "returned"
    /\ \E r \in DOMAIN ret.val[2] : ret.val[2][r] = << >>
    /\ \E r \in DOMAIN ret.val[2] : ret.val[2][r] # << >>

RECURSIVE RowsNaming(_, _, _)
RowsNaming(ls, R, columns) ==
    IF ls = << >> THEN << >>
    ELSE (IF RelationAtom(Head(ls)) = R
          THEN << parse_row(Head(ls), columns).val[2] >> ELSE << >>)
         \o RowsNaming(Tail(ls), R, columns)

\* C2: when parse_db succeeds, the list of every relation R is the rows
\* decoded from the non-blank data lines whose relation atom is R, one per
\* line, in the order of the lines in the source.
C2_RowsInSourceOrder ==
    pc = "returned" =>
        /\ \A k \in 1..Len(DataLines) : RelationAtom(DataLines[k]) \in DOMAIN ret.val[2]
        /\ \A R \in DOMAIN ret.val[2] :
               ret.val[2][R] = RowsNaming(DataLines, R, ret.val[1].columns)

\* parse_db returned two different rows of one relation
C2_Witness ==
    /\ pc = "returned"
    /\ \E R \in DOMAIN ret.val[2] :
           /\ Len(ret.val[2][R]) >= 2
           /\ ret.val[2][R][1] # ret.val[2][R][2]

\* the indexes of the data lines that do not decode under the schema
FailingLines ==
    { k \in FirstData..Len(lines) :
        /\ ~IsBlankLine(lines[k])
        /\ parse_row(strip(lines[k]), schema[1].columns).kind # "ok" }

FirstFailing == CHOOSE k \in FailingLines : \A j \in FailingLines : k <= j

\* C3: when a data line fails to decode, parse_db fails at that line: it
\* never returns a result, what it raises is that line's error, and no line
\* after the failing one is ever pulled from the source.
C3_FailsAtFirstBadLine ==
    schema # None /\ FailingLines # { } =>
        /\ pc # "returned"
        /\ ret.kind # "ok"
        /\ it <= FirstFailing
        /\ pc = "raised" =>
               /\ it = FirstFailing
               /\ ret.kind = "raise"
               /\ ret = parse_row(strip(lines[FirstFailing]), schema[1].columns)

\* parse_db failed at a line after decoding a row, with lines left unread
C3_Witness ==
    /\ pc = "raised"
    /\ Len(rowlog) >= 2
    /\ it < Len(lines)

\* the header text of the claim: of each header line the single leading '%'
\* and the spaces directly after it are removed, the rest is kept
HeaderEntryOf(l) == lstrip(Tail(strip(l)), {32})

HeaderLinesBefore(n) == SelectSeq(SubSeq(lines, 1, n), IsHeaderLine)

\* C8: the header split_header returns is, in source order, one entry per
\* consumed '%' line: the line without its single leading '%' and the spaces
\* directly after it, then a newline.
C8_HeaderIsStrippedLines ==
    given = None /\ schemastring # None =>
        schemastring[1] =
            Flatten([k \in 1..Len(HeaderLinesBefore(FirstData - 1)) |->
                        Append(HeaderEntryOf(HeaderLinesBefore(FirstData - 1)[k]), 10)])

\* C9: with an inline header, the first non-blank line that does not start
\* with '%' ends the header and is pushed back: it is the first line given
\* to parse_row, the lines after it are data (a later '%' line adds nothing
\* to the header), and the header has one entry per '%' line before it.
C9_FirstDataLineIsKept ==
    given = None =>
        /\ Len(schlines) <= Len(HeaderLinesBefore(FirstData - 1))
        /\ pc # "split_header" => Len(schlines) = Len(HeaderLinesBefore(FirstData - 1))
        /\ (pc = "parse_schema" /\ FirstData <= Len(lines))
               => x = Some(strip(lines[FirstData]))
        /\ IsPrefix(rowlog, DataLines)
        /\ pc = "returned" => rowlog = DataLines

\* after a header and a row, a later '%' line was handed to parse_row
C9_Witness ==
    /\ given = None
    /\ FirstData > 1
    /\ Len(rowlog) = 2
    /\ rowlog[1] = strip(lines[FirstData])
    /\ IsHeaderLine(rowlog[2])
    /\ Len(schlines) = 1

(***************************************************************************)
(* What the properties of parse_string are stated in: the pieces of the    *)
(* literal's body read as the grammar of string literals reads them.       *)
(***************************************************************************)
\* bytes that stand for themselves: a, SP, 0xFF
PlainPieces == { << 97 >>, << 32 >>, << 255 >> }

\* the two-byte escapes and the byte each stands for
SimpleEscapes ==
    (<< 92, 92 >> :> 92) @@ (<< 92, 34 >> :> 34) @@ (<< 92, 110 >> :> 10)
        @@ (<< 92, 114 >> :> 13) @@ (<< 92, 116 >> :> 9)

\* \x41, \x42, \x6a and the byte 16*hi+lo each stands for
HexEscapes ==
    (<< 92, 120, 52, 49 >> :> 65) @@ (<< 92, 120, 52, 50 >> :> 66)
        @@ (<< 92, 120, 54, 97 >> :> 106)

Meaning(p) ==
    IF p \in PlainPieces THEN p[1]
    ELSE IF p \in DOMAIN SimpleEscapes THEN SimpleEscapes[p]
    ELSE HexEscapes[p]

SimplePieces == PlainPieces \cup DOMAIN SimpleEscapes

\* the call is parse_string at an opening quote
AtLiteral == op = "parse_string" /\ pre # << >>

\* the offset of piece k of the body
PieceOffset(k) == Len(pre) + Len(Flatten(SubSeq(toks, 1, k - 1)))

\* the offset just after the closing quote that post starts with
AfterLiteral == Len(pre) + Len(Flatten(toks)) + 1

\* C4: a literal that the end of the line cuts off, with no unescaped
\* closing quote, makes parse_string fail with the unterminated-string
\* error; it never returns.
C4_UnterminatedStringFails ==
    (AtLiteral /\ post = << >> /\ \A k \in 1..Len(toks) : toks[k] \in SimplePieces)
        => res.kind = "raise" /\ res.err = "UnterminatedString"

\* C5: in a closed literal of plain bytes and escapes, every \xhl with
\* lowercase hex digits is accepted and stands for the one byte 16*h+l; the
\* call returns the decoded bytes and the offset after the closing quote.
C5_HexEscapeDecodes ==
    (/\ AtLiteral
     /\ post # << >>
     /\ \A k \in 1..Len(toks) : toks[k] \in SimplePieces \cup DOMAIN HexEscapes
     /\ \E k \in 1..Len(toks) : toks[k] \in DOMAIN HexEscapes)
        => /\ res.kind = "ok"
           /\ res.val = [k \in 1..Len(toks) |-> Meaning(toks[k])]
           /\ res.i = AfterLiteral

\* the errors of parse_string that report a malformed escape
MalformedEscape == { "EscapeSequenceParse", "HexSequence", "EscapeSequence" }

\* piece k is a \x that fewer than two bytes follow before the end of the
\* line (\x or \x4 as the last piece: at most a digit and the closing quote
\* are left), or that two bytes not both in 0-9a-f follow (\xA1, \x4")
IsBadHex(k) ==
    \/ toks[k] = << 92, 120, 65, 49 >>
    \/ toks[k] \in { << 92, 120 >>, << 92, 120, 52 >> } /\ k = Len(toks)

\* C6: in a line of ASCII bytes, a malformed \x escape after well-formed
\* pieces makes parse_string fail with the malformed-escape error, reporting
\* the line and the offset of the escape.
C6_MalformedHexEscapeFails ==
    AtLiteral /\ (\A j \in 1..Len(line) : line[j] < 128) =>
        \A k \in 1..Len(toks) :
            ((\A j \in 1..(k - 1) : toks[j] \in SimplePieces) /\ IsBadHex(k))
                => /\ res.kind = "raise"
                   /\ res.err \in MalformedEscape
                   /\ res.at = Some(PieceOffset(k))
                   /\ res.text = << line >>

\* piece k cannot stand in a literal: a backslash before a byte that is none
\* of \ " n r t x, a backslash that ends the line, a control byte or DEL
IsBadPiece(k) ==
    \/ toks[k] \in { << 92, 121 >>, << 9 >>, << 127 >> }
    \/ toks[k] = << 92 >> /\ k = Len(toks) /\ post = << >>
    \/ /\ toks[k] = << 92 >>
       /\ k < Len(toks)
       /\ toks[k + 1][1] \in { 97, 32, 255, 9, 127 }

\* C7: a closed literal of plain bytes and the escapes \\ \" \n \r \t
\* decodes to the plain bytes and 0x5C 0x22 0x0A 0x0D 0x09, and the offset
\* returned is the one after the closing quote; a backslash at the end of
\* the line, a backslash before another byte, and an unescaped control byte
\* or DEL make the call fail.
C7_EscapesAndBadBytes ==
    AtLiteral =>
        /\ (post # << >> /\ \A k \in 1..Len(toks) : toks[k] \in SimplePieces)
               => /\ res.kind = "ok"
                  /\ res.val = [k \in 1..Len(toks) |-> Meaning(toks[k])]
                  /\ res.i = AfterLiteral
        /\ \A k \in 1..Len(toks) :
               ((\A j \in 1..(k - 1) : toks[j] \in SimplePieces) /\ IsBadPiece(k))
                   => res.kind = "raise"

\* parse_string decoded a literal of \n and \r at offset 2
C7_Witness ==
    /\ AtLiteral
    /\ start = 2
    /\ toks = << << 92, 110 >>, << 92, 114 >> >>
    /\ res.kind = "ok"
    /\ res.val = << 10, 13 >>
    /\ res.i = 8

(***************************************************************************)
(* What the property of the separating space is stated in: the pieces of   *)
(* a data line read as tokens of the relation's columns.                   *)
(***************************************************************************)
\* piece p is a token that column dt accepts: "x y" for a string column, 7
\* for an int column, ab, 0xFF or 7 for an atom column
IsValueOf(dt, p) ==
    IF dt.syntaxtype = SYNTAX_STRING THEN p = << 34, 120, 32, 121, 34 >>
    ELSE IF dt.name = TypeInt THEN p = << 55 >>
    ELSE p \in { << 97, 98 >>, << 255 >>, << 55 >> }

\* after the relation atom and n values, each after one space, two spaces
\* stand before the next token
DoubleSpaceAfter(n) ==
    /\ pre \in DOMAIN RowSchema
    /\ n < Len(RowSchema[pre])
    /\ Len(toks) >= 2 * n + 3
    /\ \A j \in 1..n : toks[2 * j - 1] = << 32 >> /\ IsValueOf(RowSchema[pre][j], toks[2 * j])
    /\ toks[2 * n + 1] = << 32 >>
    /\ toks[2 * n + 2] = << 32 >>
    /\ toks[2 * n + 3] # << 32 >>

\* C10: a data line with two spaces where one space should separate two
\* consecutive tokens fails to decode, and the error reports the offset of
\* the second space.
C10_DoubleSpaceFailsAtSecondSpace ==
    op = "parse_row" =>
        \A n \in 0..1 :
            DoubleSpaceAfter(n)
                => /\ res.kind = "raise"
                   /\ res.at = Some(Len(pre) + Len(Flatten(SubSeq(toks, 1, 2 * n + 1))))

\* the first n columns of the relation each have their value: pieces
\* 2j-1 and 2j are one space and a token that column j accepts
ValuesOfColumns(n) ==
    /\ Len(toks) >= 2 * n
    /\ \A j \in 1..n : toks[2 * j - 1] = << 32 >> /\ IsValueOf(RowSchema[pre][j], toks[2 * j])

\* C11: parse_values returns exactly as many values as the relation has
\* columns, or fails.  A line of N+1 values, one space before each, fails
\* with the trailing-data error at the offset after value N; a line of N-1
\* values fails with the expected-space or expected-atom error at the end
\* of the line.
C11_ArityMatchesColumns ==
    op = "parse_values" =>
        LET N == Len(RowSchema[pre])
        IN  /\ res.kind \in { "ok", "raise" }
            /\ res.kind = "ok" => Len(res.val) = N
            /\ (/\ Len(toks) = 2 * N + 2
                /\ ValuesOfColumns(N)
                /\ toks[2 * N + 1] = << 32 >>
                /\ toks[2 * N + 2] # << 32 >>)
                   => /\ res.kind = "raise"
                      /\ res.err = "ExpectedEOL"
                      /\ res.at = Some(Len(pre) + Len(Flatten(SubSeq(toks, 1, 2 * N))))
                      /\ res.at # Some(Len(line))
            /\ (Len(toks) = 2 * (N - 1) /\ ValuesOfColumns(N - 1))
                   => /\ res.kind = "raise"
                      /\ res.err \in { "ExpectedSpace", "ExpectedAtom" }
                      /\ res.at = Some(Len(line))

\* C12: a data line whose leading atom is no key of the relation-to-columns
\* mapping makes parse_row fail with the unknown-relation error, whose text
\* holds the relation name; whatever follows the atom (two spaces, an open
\* string literal, a token no column would decode) is neither lexed nor
\* decoded, so the error is never one of the lexers or of a decode function.
C12_UnknownRelationFailsFirst ==
    (/\ op = "parse_row"
     /\ RelationAtom(line) # << >>
     /\ RelationAtom(line) \notin DOMAIN RowSchema)
        => /\ res.kind = "raise"
           /\ res.err = "NoSuchTable"
           /\ RelationAtom(line) \in Range(res.text)

(***************************************************************************)
(* What the properties of the Ahead buffer are stated in: the calls read   *)
(* as the contract of a one-line pushback reads them.                      *)
(***************************************************************************)
\* the line waiting to be delivered again before call k: the line of the
\* last pushback made onto an empty slot since the last next()
RECURSIVE Pending(_)
Pending(k) ==
    IF k = 1 THEN None
    ELSE IF calls[k - 1].call = "next" THEN None
    ELSE IF Pending(k - 1) = None THEN calls[k - 1].arg
    ELSE Pending(k - 1)

\* the number of items the calls before call k took from the underlying
\* sequence
Pulled(k) ==
    Cardinality({ j \in 1..(k - 1) :
                    calls[j].call = "next" /\ Pending(j) = None /\ calls[j].ok })

\* C13: next() returns the pushed-back line when one is waiting (an empty
\* line too), clears the slot and does not advance the underlying sequence;
\* otherwise it returns the next item of the underlying sequence, or signals
\* the end of input when none is left.  A pushback onto an empty slot
\* succeeds.  So the lines returned are the underlying sequence in order,
\* each pushed-back line delivered once more.
C13_NextDeliversPushbackThenSource ==
    pc = "ahead" =>
        /\ \A k \in 1..Len(calls) :
               IF calls[k].call = "unget"
               THEN Pending(k) = None => calls[k].ok
               ELSE IF Pending(k) # None
                    THEN calls[k].ok /\ calls[k].out = Pending(k)
               ELSE IF Pulled(k) < Len(lines)
                    THEN calls[k].ok /\ calls[k].out = Some(lines[Pulled(k) + 1])
               ELSE ~calls[k].ok
        /\ x = Pending(Len(calls) + 1)
        /\ it = Pulled(Len(calls) + 1)

\* after one line of the source, an empty line was pushed back, delivered
\* by the next call, and the call after it took the second line of the source
C13_Witness ==
    /\ pc = "ahead"
    /\ Len(lines) >= 2
    /\ Len(calls) = 4
    /\ calls[1].call = "next" /\ calls[1].ok
    /\ calls[2].call = "unget" /\ calls[2].arg = Some(<< >>) /\ calls[2].ok
    /\ calls[3].call = "next" /\ calls[3].out = Some(<< >>)
    /\ calls[4].call = "next" /\ calls[4].out = Some(lines[2])
    /\ x = None
    /\ it = 2

(***************************************************************************)
(* What the round trip is stated in: the canonical rendering of a decoded  *)
(* row.  A value is << column type, token bytes >>.                        *)
(***************************************************************************)
HexDigit(d) == IF d < 10 THEN 48 + d ELSE 87 + d

\* '"' and '\' escaped, LF CR TAB as \n \r \t, any other byte below 0x20
\* or equal to 0x7F as \xHH, every other byte as it is
RenderByte(b) ==
    IF b = 34 THEN << 92, 34 >>
    ELSE IF b = 92 THEN << 92, 92 >>
    ELSE IF b = 10 THEN << 92, 110 >>
    ELSE IF b = 13 THEN << 92, 114 >>
    ELSE IF b = 9 THEN << 92, 116 >>
    ELSE IF b < 32 \/ b = 127 THEN << 92, 120, HexDigit(b \div 16), HexDigit(b % 16) >>
    ELSE << b >>

RenderValue(dt, v) ==
    IF dt.syntaxtype = SYNTAX_STRING
    THEN << 34 >> \o Flatten([k \in 1..Len(v[2]) |-> RenderByte(v[2][k])]) \o << 34 >>
    ELSE v[2]

RenderRow(relation, values) ==
    relation \o Flatten([k \in 1..Len(values) |->
                            << 32 >> \o RenderValue(RowSchema[relation][k], values[k])])

\* C14: every line of the wire grammar is decoded by parse_row, and the
\* canonical rendering of the relation and values it produced is a line
\* that parse_row decodes to the same relation and the same values.
C14_RoundTrip ==
    op = "parse_row" =>
        /\ res.kind = "ok"
        /\ parse_row(RenderRow(res.val[1], res.val[2]), RowSchema).kind = "ok"
        /\ parse_row(RenderRow(res.val[1], res.val[2]), RowSchema).val = res.val

(***************************************************************************)
(* What the property of parse_atom is stated in                            *)
(***************************************************************************)
\* a byte of an atom: 0x21..0x7E
IsAtomByte(b) == b >= 33 /\ b <= 126

\* C15: when an atom byte stands at offset i, parse_atom returns the
\* maximal run of atom bytes from i on and the offset j after it: the token
\* is not empty, holds only bytes 0x21..0x7E, i < j <= len(line), and at j
\* the line ends or a byte that is no atom byte stands.  When no atom byte
\* stands at i (i at the end of the line included) parse_atom fails with
\* the expected-atom error.
C15_AtomIsMaximalPrintableRun ==
    op = "parse_atom" =>
        IF start < Len(line) /\ IsAtomByte(At(line, start))
        THEN /\ res.kind = "ok"
             /\ res.val # << >>
             /\ \A k \in 1..Len(res.val) : IsAtomByte(res.val[k])
             /\ start < res.i /\ res.i <= Len(line)
             /\ res.val = Slice(line, start, res.i)
             /\ res.i = Len(line) \/ ~IsAtomByte(At(line, res.i))
        ELSE /\ res.kind = "raise"
             /\ res.err = "ExpectedAtom"

(***************************************************************************)
(* What the property of the error reports is stated in                     *)
(***************************************************************************)
\* the failures of parsing a line: malformed token, malformed escape,
\* expected space, trailing data, unknown relation
ParsingFailures ==
    { "ExpectedAtom", "ExpectedString", "StringLiteral", "EscapeSequenceParse",
      "HexSequence", "EscapeSequence", "ExpectedSpace", "ExpectedEOL", "NoSuchTable" }

\* C16: a failure of parsing a line is reported as that failure, with the
\* text of the line and the byte offset of the failure, also when the line
\* holds bytes that are not valid UTF-8: the failure of rendering the line
\* never stands in for it.  The unknown-relation message names the relation
\* and the line and has no offset to report.  The error of a column's
\* decode function and the TypeError of unpacking the missing result of
\* parse_string are raised by no error report of the parser.
C16_FailuresKeepLineAndOffset ==
    (/\ op \in { "parse_row", "parse_values" }
     /\ res.kind = "raise"
     /\ res.err \notin { "DecodeError", "TypeError" })
        => /\ res.err \in ParsingFailures
           /\ line \in Range(res.text)
           /\ res.err # "NoSuchTable" => res.at # None

(***************************************************************************)
(* What the property of trailing bytes is stated in: the tokens of a data  *)
(* line, one per column of its relation, as the lexers delimit them.       *)
(***************************************************************************)
\* the offset after the token of the last column, when one space and a
\* token stand for each column from offset i on; None otherwise
RECURSIVE TokensEnd(_, _, _)
TokensEnd(l, i, datatypes) ==
    IF datatypes = << >> THEN Some(i)
    ELSE LET sp == parse_space(l, i)
         IN  IF sp.kind # "ok" THEN None
             ELSE LET tok == lex_token(Head(datatypes), l, sp.i)
                  IN  IF tok.kind # "ok" THEN None
                      ELSE TokensEnd(l, tok.i, Tail(datatypes))

LastTokenEnd(l, columns) ==
    LET a == parse_atom(l, 0)
    IN  IF a.kind # "ok" THEN None
        ELSE IF a.val \notin DOMAIN columns THEN None
        ELSE TokensEnd(l, a.i, columns[a.val])

\* l has one or more bytes after the token of its relation's last column
HasTrailingBytes(l, columns) ==
    /\ LastTokenEnd(l, columns) # None
    /\ LastTokenEnd(l, columns)[1] < Len(l)

\* line k of the source has been pulled and handed on by parse_db's loop
Processed(k) == k >= FirstData /\ (k < it \/ (k = it /\ x = None))

\* C17: for every line the source delivers to parse_db that has one or
\* more bytes, whitespace included, after the token of its relation's last
\* column, the call fails: it never returns, and has raised once the line
\* is processed.
C17_TrailingBytesFail ==
    schema # None =>
        \A k \in FirstData..Len(lines) :
            HasTrailingBytes(lstrip(lines[k], Whitespace), schema[1].columns)
                => /\ pc # "returned"
                   /\ Processed(k) => pc = "raised"

\* C17, amended: parse_db trims the whitespace around every line before
\* decoding it.  For every line whose trimmed form has one or more bytes
\* after the token of its relation's last column the call fails; a line
\* that ends with its last token once trimmed does not fail unless a
\* decode function rejects a token.
C17_TrailingBytesOfTrimmedLineFail ==
    schema # None =>
        /\ \A k \in FirstData..Len(lines) :
               HasTrailingBytes(strip(lines[k]), schema[1].columns)
                   => /\ pc # "returned"
                      /\ Processed(k) => pc = "raised"
        /\ (/\ pc = "raised"
            /\ rowlog # << >>
            /\ LastTokenEnd(rowlog[Len(rowlog)], schema[1].columns)
                   = Some(Len(rowlog[Len(rowlog)])))
               => ret.err = "DecodeError"

\* after the row of " r x ", whose trailing space is trimmed, the call
\* failed at "r y z" with the end-of-line error
C17_Witness ==
    /\ pc = "raised"
    /\ ret.err = "ExpectedEOL"
    /\ Len(rowlog) = 2
    /\ rowlog[1] = << 114, 32, 120 >>
    /\ << 32, 114, 32, 120, 32 >> \in Range(lines)
    /\ rowlog[2] = << 114, 32, 121, 32, 122 >>

(***************************************************************************)
(* What the property of CRLF files is stated in                            *)
(***************************************************************************)
\* every line of the file ends with CR LF
IsCrlfFile ==
    /\ file # None
    /\ file[1] # << >>
    /\ \A k \in 1..Len(file[1]) : file[1][k] = 10 => (k > 1 /\ file[1][k - 1] = 13)

EndsWithCr(l) == l # << >> /\ l[Len(l)] = 13

\* C18: of a file with CRLF line ends only the '\n' of each line is
\* stripped, and the carriage return is still the last byte of the line
\* when the line's last token is lexed.
C18_CarriageReturnStaysInLine ==
    (IsCrlfFile /\ pc # "open") =>
        /\ \A k \in 1..Len(lines) : EndsWithCr(lines[k])
        /\ \A k \in 1..Len(rowlog) : EndsWithCr(rowlog[k])

\* the values of all rows of the mapping t
RowValues(t) == UNION { UNION { Range(t[R][k]) : k \in 1..Len(t[R]) } : R \in DOMAIN t }

\* C18, amended: parse_db_file strips only the '\n' of each line, so a line
\* of a CRLF file reaches parse_db with its carriage return; parse_db trims
\* it away with the other whitespace around the line before the line is
\* lexed, so no line handed to parse_row and no token of a row ends with a
\* carriage return.
C18_CarriageReturnIsTrimmed ==
    (file # None /\ pc # "open") =>
        /\ Flatten([k \in 1..Len(lines) |-> Append(lines[k], 10)]) = file[1]
        /\ \A k \in 1..Len(lines) : \A j \in 1..Len(lines[k]) : lines[k][j] # 10
        /\ IsCrlfFile => \A k \in 1..Len(lines) : EndsWithCr(lines[k])
        /\ \A k \in 1..Len(rowlog) :
               /\ ~EndsWithCr(rowlog[k])
               /\ \E j \in 1..Len(lines) :
                      rowlog[k] = rstrip(lstrip(lines[j], Whitespace), Whitespace)
        /\ \A v \in RowValues(tuples_of_relation) : ~EndsWithCr(v[2])

\* a CRLF file with an inline header was decoded to the rows x and "a b"
C18_Witness ==
    /\ IsCrlfFile
    /\ given = None
    /\ pc = "returned"
    /\ Len(lines) = 2
    /\ EndsWithCr(lines[2])
    /\ ret.val[2] = (<< 114 >> :> << << << TypeAtom, << 120 >> >> >> >>)

\* C19: the slot holds at most one line.  In a run of parse_db, pushback
\* is called at most once, by split_header when it returns, onto an empty
\* slot: the assertion never fails, and the slot is occupied only between
\* split_header's return and the first pull of the row loop.  A pushback
\* onto an occupied slot fails its assertion and leaves the buffered line
\* as it is: the next call of next() still delivers that line.
C19_SinglePushbackSlot ==
    /\ Len(x) <= 1
    /\ pc # "ahead" =>
           /\ ungets <= 1
           /\ ret.err # "AssertionError"
           /\ ungets = 1 => (given = None /\ pc # "split_header")
           /\ x # None => (ungets = 1 /\ rowlog = << >> /\ pc # "returned")
    /\ pc = "ahead" =>
           /\ \A k \in 1..Len(calls) :
                  /\ (calls[k].call = "unget" /\ Pending(k) # None) => ~calls[k].ok
                  /\ (calls[k].call = "next" /\ Pending(k) # None)
                         => calls[k].out = Pending(k)
           /\ x = Pending(Len(calls) + 1)

\* a second pushback failed, and next() then delivered the line of the first
C19_Witness ==
    /\ pc = "ahead"
    /\ Len(calls) = 3
    /\ calls[1].call = "unget" /\ calls[1].ok
    /\ calls[2].call = "unget" /\ ~calls[2].ok /\ calls[2].arg # calls[1].arg
    /\ calls[3].call = "next" /\ calls[3].out = calls[1].arg
    /\ x = None

(***************************************************************************)
(* What termination is stated in: a measure of the work a call has left,   *)
(* which is a natural number that every step makes smaller, and the steps  *)
(* a call that is not over can take.                                       *)
(***************************************************************************)
\* the call of parse_db has returned or raised, the call of a lexer is over
Finished == pc \in { "returned", "raised" } \/ (pc = "idle" /\ op # "")

Rank ==
    IF pc = "split_header" THEN 4
    ELSE IF pc = "parse_schema" THEN 3
    ELSE IF pc = "rows" THEN 2
    ELSE IF pc = "idle" /\ op = "" THEN 1
    ELSE 0

\* the lines not yet pulled weigh most, then the line in the slot, then the
\* phases left
Measure == 3 * (Len(lines) - it) + Len(x) + Rank

\* a call that is not over has a step to take: an iteration of
\* split_header; the schema is parsed or rejected; the row loop ends, skips
\* a blank line, or hands the line to parse_row, which returns a row or
\* raises
CanStep ==
    IF pc = "split_header"
    THEN ENABLED (HeaderBlank \/ HeaderLine \/ HeaderStop \/ HeaderEnd)
    ELSE IF pc = "parse_schema"
    THEN parse_schema(schemastring[1]).kind \in { "ok", "raise" }
    ELSE IF pc = "rows"
    THEN \/ ENABLED (RowBlank \/ Return)
         \/ parse_row(strip(ahead_next(x, it, lines).out), schema[1].columns).kind
                \in { "ok", "raise" }
    ELSE pc = "idle" /\ op = ""

\* C20: every call ends.  A call that is not over always has a step to
\* take, and every step lowers the measure, which is never negative: so
\* parse_db over a finite source of finite lines returns or raises after
\* finitely many steps.  A pull takes at most one line from the underlying
\* iterator and never goes back, and the iterator is exhausted and the slot
\* empty when parse_db returns.  The offset parse_atom and parse_string
\* return is past the offset they started at and not past the end of the
\* line.
C20_Terminates ==
    /\ [](Measure >= 0)
    /\ [](~Finished => CanStep)
    /\ [][Measure' < Measure]_vars
    /\ [][it' \in { it, it + 1 } /\ it' <= Len(lines)]_vars
    /\ [](pc = "returned" => (it = Len(lines) /\ x = None))
    /\ []((op \in { "parse_atom", "parse_string" } /\ res.kind = "ok")
              => (start < res.i /\ res.i <= Len(line)))

\* parse_db returned after pulling three lines: header, blank and data
C20_Witness ==
    /\ pc = "returned"
    /\ given = None
    /\ it = 3
    /\ Len(lines) = 3
    /\ Len(schlines) = 1
    /\ Len(rowlog) = 1

====
